---- MODULE Spec2Model ----
(***************************************************************************)
(* Minimax with alpha-beta pruning and randomized tie-breaking             *)
(* (src/src/index.ts).  The recursion of runMinimaxAlgorithm is unfolded   *)
(* into an explicit stack of frames; every callback invocation is          *)
(* recorded in the history variable `calls`.                               *)
(***************************************************************************)
EXTENDS Integers, Sequences, FiniteSets, TLC

(***************************************************************************)
(* Bounds of the model.                                                    *)
(***************************************************************************)
NumGames == 500        \* number of games (callback families) explored
TreeDepth == 3         \* no game has a legal move below this depth
Branch == 3            \* largest number of transitions a generator returns
MaxMaxDepth == 3       \* largest maxDepth passed to Minimax

(***************************************************************************)
(* Numbers.  The sentinels 9e9 and -9e9 do not fit TLC's 32-bit integers,  *)
(* so a number x is kept exactly as the pair <<q, r>> with                 *)
(* x = q * 10^9 + r and 0 <= r < 10^9.                                     *)
(***************************************************************************)
E9 == 10 ^ 9

Num(n) == IF n >= 0 THEN <<0, n>> ELSE <<-1, E9 + n>>

Less(x, y) == x[1] < y[1] \/ (x[1] = y[1] /\ x[2] < y[2])

Greater(x, y) == Less(y, x)

Plus(x, y) ==
    LET s == x[2] + y[2]
    IN  IF s >= E9 THEN <<x[1] + y[1] + 1, s - E9>> ELSE <<x[1] + y[1], s>>

Minus(x, y) ==
    IF x[2] >= y[2] THEN <<x[1] - y[1], x[2] - y[2]>>
                    ELSE <<x[1] - y[1] - 1, x[2] - y[2] + E9>>

MathMax(x, y) == IF Less(x, y) THEN y ELSE x

MathMin(x, y) == IF Less(y, x) THEN y ELSE x

PosInf == <<9, 0>>                    \* 9e9

NegInf == <<-9, 0>>                   \* -9e9

LossScore == Plus(NegInf, Num(1))     \* -9e9 + 1

WinScore == Minus(PosInf, Num(1))     \* 9e9 - 1

DrawScore == Num(0)

Undefined == 0                        \* the absent transition

(***************************************************************************)
(* The caller's side.  A board is the sequence of transitions applied to   *)
(* the starting position; a transition is a number in 1..Branch.  The      *)
(* five callbacks are pure functions of the board, fixed by `game`.        *)
(***************************************************************************)
VARIABLES game, maxDepth, board, stack, ret, pc, result, calls

vars == <<game, maxDepth, board, stack, ret, pc, result, calls>>

Front(s) == SubSeq(s, 1, Len(s) - 1)

Last(s) == s[Len(s)]

RECURSIVE Code(_)
Code(b) == IF b = <<>> THEN 1 ELSE Code(Front(b)) * (Branch + 1) + Last(b)

Mix(g, n, salt) ==
    (((g + salt * 131) * (2 * n + 1) * 251 + n * 40503 + salt * 977
        + ((g * g) % 8191)) \div 8) % 4093

HeuristicValues == <<NegInf, Num(0), Num(5), Num(9), PosInf>>

calculateBoard(g, b) ==
    HeuristicValues[(Mix(g, Code(b), 1) % Len(HeuristicValues)) + 1]

calculateEndState(g, b) ==
    LET h == Mix(g, Code(b), 2) % 8
    IN  IF h = 0 THEN -1 ELSE IF h = 1 THEN 1 ELSE 0

calculateTransitions(g, b, isOwnTurn) ==
    LET n    == Code(b)
        k    == Mix(g, n, IF isOwnTurn THEN 3 ELSE 4) % (2 * Branch + 1)
        cnt  == IF Len(b) >= TreeDepth THEN 0
                ELSE IF k > Branch THEN k - Branch ELSE k
        desc == Mix(g, n, 5) % 2 = 1
    IN  [i \in 1..cnt |-> IF desc THEN cnt + 1 - i ELSE i]

applyTransition(b, t) == Append(b, t)

RECURSIVE RemoveLast(_, _)
RemoveLast(b, t) ==
    IF b = <<>> THEN b
    ELSE IF Last(b) = t THEN Front(b)
    ELSE Append(RemoveLast(Front(b), t), Last(b))

undoTransition(b, t) == RemoveLast(b, t)

(***************************************************************************)
(* runMinimaxAlgorithm, one frame per active call.                         *)
(***************************************************************************)
NoResult == [transition |-> Undefined, value |-> Num(0)]

NewFrame(depth, isMax, alpha, beta) ==
    [depth |-> depth, isMax |-> isMax, alpha |-> alpha, beta |-> beta,
     transitions |-> <<>>, i |-> 1, best |-> Num(0), bestTransitions |-> <<>>,
     at |-> "entry"]

Top == stack[Len(stack)]

SetTop(f) == [stack EXCEPT ![Len(stack)] = f]

Call(op, b, t) == [op |-> op, board |-> b, arg |-> t]

\* variant: the depth limit tested with > instead of ===
IsDepthLimitPast(depth, md) == depth > md

IsDepthLimit(depth, md) == depth = md

\* variant: the cutoff taken on alpha >= beta
CutoffOnEqual(alpha, beta) == ~Less(alpha, beta)

Cutoff(alpha, beta) == Greater(alpha, beta)

\* variant: the starting bests of the two roles exchanged
InitBestSwapped(isMax) == IF isMax THEN PosInf ELSE NegInf

InitBest(isMax) == IF isMax THEN NegInf ELSE PosInf

Improves(isMax, v, best) ==
    (isMax /\ Greater(v, best)) \/ (~isMax /\ Less(v, best))

\* variant: the recursion passes depth instead of depth + 1
ChildFrameSameDepth(f) == NewFrame(f.depth, ~f.isMax, f.alpha, f.beta)

ChildFrame(f) == NewFrame(f.depth + 1, ~f.isMax, f.alpha, f.beta)

\* variant: the maximizer tightens beta and the minimizer alpha
CompareWrongBound(f, t, v) ==
    IF v = f.best
    THEN [f EXCEPT !.bestTransitions = Append(@, t)]
    ELSE IF (f.isMax /\ Greater(v, f.best)) \/ (~f.isMax /\ Less(v, f.best))
    THEN [f EXCEPT !.best = v,
                   !.bestTransitions = <<t>>,
                   !.alpha = IF f.isMax THEN @ ELSE MathMax(@, v),
                   !.beta = IF f.isMax THEN MathMin(@, v) ELSE @]
    ELSE f

\* lines 111-123: fold the child's value into the frame
Compare(f, t, v) ==
    IF v = f.best
    THEN [f EXCEPT !.bestTransitions = Append(@, t)]
    ELSE IF Improves(f.isMax, v, f.best)
    THEN [f EXCEPT !.best = v,
                   !.bestTransitions = <<t>>,
                   !.alpha = IF f.isMax THEN MathMax(@, v) ELSE @,
                   !.beta = IF f.isMax THEN @ ELSE MathMin(@, v)]
    ELSE f

\* variant: the transition is left applied
BoardNotRestored(b, t) == b

\* line 126: the board after the visit of transition t
BoardAfterVisit(b, t) == undoTransition(b, t)

\* variant: the first transition of the list is undone
UndoneFirst(f) == f.transitions[1]

\* line 126: the transition handed to undoTransition
Undone(f) == f.transitions[f.i]

\* math.random(0, n - 1)
RandomIndex(n) == 0..(n - 1)

\* variant: only a won position ends the search
EndedWonOnly(isEndState) == isEndState > 0

\* lines 74, 77: the node is a lost or a won position
Ended(isEndState) == isEndState < 0 \/ isEndState > 0

\* variant: the sentinels without their one-unit margin
EndStateValueNoMargin(isEndState) == IF isEndState < 0 THEN NegInf ELSE PosInf

EndStateValue(isEndState) == IF isEndState < 0 THEN LossScore ELSE WinScore

Return(tr, v) ==
    /\ stack' = Front(stack)
    /\ ret' = [transition |-> tr, value |-> v]

Running == pc = "run" /\ stack # <<>>

\* lines 36-48: Minimax enters the engine at depth 0
MinimaxCall ==
    /\ pc = "start"
    /\ pc' = "run"
    /\ stack' = <<NewFrame(0, TRUE, NegInf, PosInf)>>
    /\ UNCHANGED <<game, maxDepth, board, ret, result, calls>>

\* lines 66-68
DepthLimit ==
    /\ Running /\ Top.at = "entry"
    /\ IsDepthLimit(Top.depth, maxDepth)
    /\ calls' = Append(calls, Call("calculateBoard", board, Undefined))
    /\ Return(Undefined, calculateBoard(game, board))
    /\ UNCHANGED <<game, maxDepth, board, pc, result>>

\* line 70
GenerateTransitions ==
    /\ Running /\ Top.at = "entry"
    /\ ~IsDepthLimit(Top.depth, maxDepth)
    /\ calls' = Append(calls, Call("calculateTransitions", board, Undefined))
    /\ stack' = SetTop([Top EXCEPT
                    !.transitions = calculateTransitions(game, board, Top.isMax),
                    !.at = "endstate"])
    /\ UNCHANGED <<game, maxDepth, board, ret, pc, result>>

\* lines 72-80
CheckEndState ==
    /\ Running /\ Top.at = "endstate"
    /\ calls' = Append(calls, Call("calculateEndState", board, Undefined))
    /\ LET isEndState == calculateEndState(game, board)
       IN  IF Ended(isEndState)
           THEN Return(Undefined, EndStateValue(isEndState))
           ELSE /\ stack' = SetTop([Top EXCEPT !.at = "moves"])
                /\ ret' = ret
    /\ UNCHANGED <<game, maxDepth, board, pc, result>>

\* lines 82-84
NoMoves ==
    /\ Running /\ Top.at = "moves"
    /\ Len(Top.transitions) = 0
    /\ Return(Undefined, DrawScore)
    /\ UNCHANGED <<game, maxDepth, board, pc, result, calls>>

\* lines 86-87
BeginLoop ==
    /\ Running /\ Top.at = "moves"
    /\ Len(Top.transitions) # 0
    /\ stack' = SetTop([Top EXCEPT !.best = InitBest(Top.isMax),
                                   !.bestTransitions = <<>>,
                                   !.i = 1,
                                   !.at = "loop"])
    /\ UNCHANGED <<game, maxDepth, board, ret, pc, result, calls>>

\* lines 89-91: after a cutoff the remaining siblings are passed over
SkipTransition ==
    /\ Running /\ Top.at = "loop"
    /\ Top.i <= Len(Top.transitions)
    /\ Cutoff(Top.alpha, Top.beta)
    /\ stack' = SetTop([Top EXCEPT !.i = @ + 1])
    /\ UNCHANGED <<game, maxDepth, board, ret, pc, result, calls>>

\* lines 93-109
ApplyAndRecurse ==
    /\ Running /\ Top.at = "loop"
    /\ Top.i <= Len(Top.transitions)
    /\ ~Cutoff(Top.alpha, Top.beta)
    /\ LET t == Top.transitions[Top.i]
       IN  /\ calls' = Append(calls, Call("applyTransition", board, t))
           /\ board' = applyTransition(board, t)
           /\ stack' = Append(SetTop([Top EXCEPT !.at = "wait"]), ChildFrame(Top))
    /\ UNCHANGED <<game, maxDepth, ret, pc, result>>

\* lines 111-127
CompareAndUndo ==
    /\ Running /\ Top.at = "wait"
    /\ LET t == Top.transitions[Top.i]
           f == Compare(Top, t, ret.value)
       IN  /\ calls' = Append(calls, Call("undoTransition", board, Undone(Top)))
           /\ board' = BoardAfterVisit(board, Undone(Top))
           /\ stack' = SetTop([f EXCEPT !.i = @ + 1, !.at = "loop"])
    /\ UNCHANGED <<game, maxDepth, ret, pc, result>>

\* lines 129-134
SelectResult ==
    /\ Running /\ Top.at = "loop"
    /\ Top.i > Len(Top.transitions)
    /\ IF Len(Top.bestTransitions) = 0
       THEN Return(Undefined, Top.best)
       ELSE \E r \in RandomIndex(Len(Top.bestTransitions)) :
                Return(Top.bestTransitions[r + 1], Top.best)
    /\ UNCHANGED <<game, maxDepth, board, pc, result, calls>>

\* lines 36, 49-50: the engine has returned to Minimax
MinimaxReturn ==
    /\ pc = "run" /\ stack = <<>>
    /\ pc' = "done"
    /\ result' = ret
    /\ UNCHANGED <<game, maxDepth, board, stack, ret, calls>>

Init ==
    /\ game \in 1..NumGames
    /\ maxDepth \in -1..MaxMaxDepth
    /\ board = <<>>
    /\ stack = <<>>
    /\ ret = NoResult
    /\ pc = "start"
    /\ result = NoResult
    /\ calls = <<>>

Next ==
    \/ MinimaxCall
    \/ DepthLimit
    \/ GenerateTransitions
    \/ CheckEndState
    \/ NoMoves
    \/ BeginLoop
    \/ SkipTransition
    \/ ApplyAndRecurse
    \/ CompareAndUndo
    \/ SelectResult
    \/ MinimaxReturn

Spec == Init /\ [][Next]_vars

\* the engine is synchronous: a step that can be taken is taken
FairSpec == Spec /\ WF_vars(Next)

(***************************************************************************)
(* The exhaustive minimax of the same game: no window, no pruning;         *)
(* maximizes at even depths, minimizes at odd depths, with the depth-limit,*)
(* end-state and no-move leaf rules.                                       *)
(***************************************************************************)
Range(s) == {s[k] : k \in DOMAIN s}

Largest(S) == CHOOSE x \in S : \A y \in S : ~Less(x, y)

Smallest(S) == CHOOSE x \in S : \A y \in S : ~Less(y, x)

RECURSIVE FullValue(_, _, _)
FullValue(b, depth, isMax) ==
    IF depth = maxDepth THEN calculateBoard(game, b)
    ELSE IF calculateEndState(game, b) < 0 THEN <<-9, 1>>
    ELSE IF calculateEndState(game, b) > 0 THEN <<8, E9 - 1>>
    ELSE IF calculateTransitions(game, b, isMax) = <<>> THEN <<0, 0>>
    ELSE LET vs == {FullValue(Append(b, t), depth + 1, ~isMax) :
                        t \in Range(calculateTransitions(game, b, isMax))}
         IN  IF isMax THEN Largest(vs) ELSE Smallest(vs)

\* the boards of the exhaustive search below board b
RECURSIVE FullBoards(_, _, _)
FullBoards(b, depth, isMax) ==
    IF depth = maxDepth \/ calculateEndState(game, b) # 0 THEN {b}
    ELSE {b} \cup UNION {FullBoards(Append(b, t), depth + 1, ~isMax) :
                            t \in Range(calculateTransitions(game, b, isMax))}

CallsOf(op) == {k \in DOMAIN calls : calls[k].op = op}

\* the boards the search has entered
VisitedBoards ==
    {<<>>} \cup {Append(calls[k].board, calls[k].arg) : k \in CallsOf("applyTransition")}

\* a finished search that left part of the tree unvisited
Pruned == pc = "done" /\ VisitedBoards # FullBoards(<<>>, 0, TRUE)

RootMoves == calculateTransitions(game, <<>>, TRUE)

\* the root frame is at result selection (line 129)
RootSelecting ==
    /\ pc = "run" /\ Len(stack) = 1
    /\ Top.at = "loop" /\ Top.i > Len(Top.transitions)

(***************************************************************************)
(* C1: board restoration.  For every maxDepth >= 0, with undoTransition    *)
(* the inverse of applyTransition, the board when Minimax returns equals   *)
(* the board when it was called, also when cutoffs skipped siblings.       *)
(***************************************************************************)
C1_BoardRestored ==
    (pc = "done" /\ maxDepth >= 0) => board = <<>>

C1_Witness ==
    /\ Pruned /\ maxDepth >= 2
    /\ Cardinality(CallsOf("applyTransition")) >= 3
    /\ board = <<>>

(***************************************************************************)
(* C2: alpha-beta equivalence.  For every maxDepth >= 0 and heuristic      *)
(* values inside [-9e9, 9e9], the value Minimax computes at the root       *)
(* equals the value of the exhaustive minimax of the same tree.            *)
(***************************************************************************)
C2_AlphaBetaEquivalence ==
    (pc = "done" /\ maxDepth >= 0) => result.value = FullValue(<<>>, 0, TRUE)

C2_Witness ==
    /\ Pruned /\ maxDepth >= 3
    /\ result.value = FullValue(<<>>, 0, TRUE)
    /\ result.value \notin {<<-9, 1>>, <<8, E9 - 1>>, <<0, 0>>}

(***************************************************************************)
(* C3: the tie-break set is exact.  When the root reaches the recursive    *)
(* case, the transitions Minimax can return, over all outcomes of the      *)
(* random choice, are exactly the root transitions whose subtree has       *)
(* exhaustive value equal to the root's exhaustive value.                  *)
(***************************************************************************)
TrueBest ==
    {t \in Range(RootMoves) :
        FullValue(<<t>>, 1, FALSE) = FullValue(<<>>, 0, TRUE)}

C3_Returnable ==
    {Top.bestTransitions[r + 1] : r \in RandomIndex(Len(Top.bestTransitions))}

C3_TieBreakExact ==
    /\ RootSelecting => (C3_Returnable = TrueBest /\ Top.best = FullValue(<<>>, 0, TRUE))
    /\ (pc = "done" /\ result.transition # 0) => result.transition \in TrueBest

C3_Witness ==
    /\ RootSelecting
    /\ Len(Top.bestTransitions) >= 2
    /\ Len(Top.transitions) > Len(Top.bestTransitions)
    /\ Top.bestTransitions[1] # Top.transitions[Len(Top.transitions)]
    /\ VisitedBoards # FullBoards(<<>>, 0, TRUE)
    /\ C3_Returnable = TrueBest

(***************************************************************************)
(* C4: depth-zero identity.  With maxDepth = 0 Minimax returns no          *)
(* transition and the value evaluateBoard(board), leaves the board         *)
(* unchanged and calls neither applyTransition nor undoTransition, also    *)
(* when the end-state is nonzero or there are no legal moves.              *)
(***************************************************************************)
C4_DepthZero ==
    (maxDepth = 0) =>
        /\ CallsOf("applyTransition") = {} /\ CallsOf("undoTransition") = {}
        /\ board = <<>>
        /\ pc = "done" =>
              /\ result.transition = 0
              /\ result.value = calculateBoard(game, <<>>)
              /\ calls = <<[op |-> "calculateBoard", board |-> <<>>, arg |-> 0]>>

C4_Witness ==
    /\ maxDepth = 0 /\ pc = "done"
    /\ calculateEndState(game, <<>>) # 0
    /\ RootMoves # <<>>
    /\ result = [transition |-> 0, value |-> calculateBoard(game, <<>>)]

(***************************************************************************)
(* C5: terminal precedence.  At every node that is not a depth-limit leaf  *)
(* a nonzero end-state is honored before any move is enumerated: the node  *)
(* returns no transition with value 9e9 - 1 (positive) or -9e9 + 1         *)
(* (negative), at maximizing and minimizing nodes alike, and no transition *)
(* is applied at that node even if the generated list is non-empty; in     *)
(* particular a root with a positive end-state returns (none, 9e9 - 1).    *)
(***************************************************************************)
C5_Score(isEndState) == IF isEndState > 0 THEN <<8, E9 - 1>> ELSE <<-9, 1>>

C5_Root ==
    (pc = "done" /\ maxDepth # 0 /\ calculateEndState(game, <<>>) # 0) =>
        /\ result = [transition |-> 0,
                     value |-> C5_Score(calculateEndState(game, <<>>))]
        /\ CallsOf("applyTransition") = {}

C5_NodeStep ==
    (/\ pc = "run" /\ stack # <<>>
     /\ Top.at \in {"entry", "endstate"}
     /\ Top.depth # maxDepth
     /\ calculateEndState(game, board) # 0) =>
        /\ board' = board
        /\ \A k \in DOMAIN calls' : calls'[k].op # "applyTransition" \/ k \in DOMAIN calls
        /\ Len(stack') <= Len(stack)
        /\ Len(stack') = Len(stack) =>
              (Top.at = "entry" /\ stack'[Len(stack)].at = "endstate")
        /\ Len(stack') < Len(stack) =>
              ret' = [transition |-> 0,
                      value |-> C5_Score(calculateEndState(game, board))]

C5_TerminalPrecedence == []C5_Root /\ [][C5_NodeStep]_vars

C5_Witness ==
    /\ pc = "done" /\ maxDepth >= 1
    /\ calculateEndState(game, <<>>) > 0
    /\ RootMoves # <<>>
    /\ result = [transition |-> 0, value |-> <<8, E9 - 1>>]

(***************************************************************************)
(* C6: a call with maxDepth < 0 is rejected at the driver boundary: it     *)
(* applies no transition, does not recurse and does not return a search    *)
(* result.                                                                 *)
(***************************************************************************)
C6_NegativeRejected ==
    (maxDepth < 0) =>
        /\ CallsOf("applyTransition") = {}
        /\ Len(stack) <= 1
        /\ pc # "done"

(***************************************************************************)
(* C7 as stated: at every node that is not a depth-limit leaf the          *)
(* end-state check comes before move generation, so calculateTransitions   *)
(* is never called on a board whose end-state is nonzero.                  *)
(***************************************************************************)
C7_EndStateBeforeGeneration ==
    (maxDepth >= 1) =>
        \A k \in CallsOf("calculateTransitions") :
            /\ \E j \in 1..(k - 1) :
                  calls[j].op = "calculateEndState" /\ calls[j].board = calls[k].board
            /\ calculateEndState(game, calls[k].board) = 0

(***************************************************************************)
(* C7 amended: at every node that is not a depth-limit leaf the move       *)
(* generation is called first and the end-state check is the next          *)
(* callback, on the same board; a nonzero end-state is honored before any  *)
(* generated transition is applied, so applyTransition is never called on  *)
(* a board whose end-state is nonzero.                                     *)
(***************************************************************************)
C7_GenerationThenEndState ==
    /\ \A k \in CallsOf("calculateEndState") :
          /\ k > 1
          /\ calls[k - 1].op = "calculateTransitions"
          /\ calls[k - 1].board = calls[k].board
    /\ \A k \in CallsOf("calculateTransitions") :
          k < Len(calls) =>
              /\ calls[k + 1].op = "calculateEndState"
              /\ calls[k + 1].board = calls[k].board
    /\ \A k \in CallsOf("applyTransition") :
          calculateEndState(game, calls[k].board) = 0

C7_Witness ==
    /\ pc = "done" /\ maxDepth >= 2
    /\ \E k \in CallsOf("calculateTransitions") :
          /\ Len(calls[k].board) = 1
          /\ calculateEndState(game, calls[k].board) # 0
          /\ calculateTransitions(game, calls[k].board, FALSE) # <<>>
          /\ calls[k + 1].op = "calculateEndState"
          /\ k + 1 < Len(calls)

(***************************************************************************)
(* C8: apply/undo discipline.  The applyTransition and undoTransition      *)
(* calls are well nested: every undo is for the most recently applied      *)
(* transition not yet undone, issued once the subtree below it is          *)
(* complete and before the next sibling is applied or the node returns;    *)
(* every apply is undone by the time Minimax returns; siblings skipped     *)
(* after a cutoff are neither applied nor undone.                          *)
(***************************************************************************)
C8_WellNested ==
    /\ \A k \in CallsOf("undoTransition") :
          /\ calls[k].board # <<>>
          /\ calls[k].board[Len(calls[k].board)] = calls[k].arg
          /\ k > 1
          /\ calls[k - 1].op \in {"applyTransition", "undoTransition"} =>
                Len(calls[k - 1].board) =
                    Len(calls[k].board) + (IF calls[k - 1].op = "undoTransition" THEN 1 ELSE -1)
    /\ \A k \in CallsOf("applyTransition") :
          \A j \in CallsOf("applyTransition") :
              (calls[j].board = calls[k].board /\ calls[j].arg = calls[k].arg) => j = k
    /\ \A j \in DOMAIN stack : stack[j].depth = j - 1
    /\ (pc = "run" /\ stack # <<>>) =>
          Len(board) = (IF Top.at = "wait" THEN Len(stack) ELSE Len(stack) - 1)
    /\ pc = "done" =>
          /\ board = <<>>
          /\ Cardinality(CallsOf("applyTransition")) = Cardinality(CallsOf("undoTransition"))

C8_SkipStep ==
    (/\ pc = "run" /\ stack # <<>>
     /\ Top.at = "loop" /\ Top.i <= Len(Top.transitions)
     /\ Less(Top.beta, Top.alpha)) =>
        (calls' = calls /\ board' = board /\ Len(stack') = Len(stack))

C8_ApplyUndoDiscipline == []C8_WellNested /\ [][C8_SkipStep]_vars

C8_Witness ==
    /\ Pruned
    /\ \E k \in CallsOf("undoTransition") :
          /\ Len(calls[k].board) = 2
          /\ calls[k - 1].op = "undoTransition"
    /\ \E k \in CallsOf("applyTransition") :
          k > 1 /\ calls[k - 1].op = "undoTransition" /\ calls[k].arg # calls[k - 1].arg
    /\ Cardinality(CallsOf("applyTransition")) = Cardinality(CallsOf("undoTransition"))

(***************************************************************************)
(* C9: for maxDepth >= 0 and callback values inside [-9e9, 9e9], Minimax   *)
(* returns a transition exactly when maxDepth >= 1, the root's end-state   *)
(* is 0 and the root's transition list is non-empty, and the transition    *)
(* is an element of that list.  Every node is entered with alpha <= beta   *)
(* and the best-transition set is never empty at result selection.         *)
(***************************************************************************)
C9_TransitionIffChoice ==
    (maxDepth >= 0) =>
        /\ pc = "done" =>
              /\ (result.transition # 0) <=>
                    (/\ maxDepth >= 1
                     /\ calculateEndState(game, <<>>) = 0
                     /\ RootMoves # <<>>)
              /\ result.transition # 0 => result.transition \in Range(RootMoves)
        /\ \A j \in DOMAIN stack :
              (stack[j].at \in {"entry", "endstate", "moves"}
                    \/ (stack[j].at = "loop" /\ stack[j].i = 1)) =>
                  ~Less(stack[j].beta, stack[j].alpha)
        /\ \A j \in DOMAIN stack :
              (stack[j].at = "loop" /\ stack[j].i > Len(stack[j].transitions)) =>
                  stack[j].bestTransitions # <<>>

C9_Witness ==
    /\ Pruned /\ maxDepth >= 2
    /\ result.transition \in Range(RootMoves)
    /\ Len(RootMoves) >= 2

(***************************************************************************)
(* C10: bounded, terminating search.  For every maxDepth >= 0 a call to    *)
(* Minimax eventually returns; the engine is never entered at a depth      *)
(* greater than maxDepth, at most maxDepth transitions are applied and     *)
(* not yet undone at any moment, and evaluateBoard is called only at       *)
(* nodes of depth exactly maxDepth.                                        *)
(***************************************************************************)
C10_Bounded ==
    (maxDepth >= 0) =>
        /\ \A j \in DOMAIN stack : stack[j].depth <= maxDepth
        /\ Len(stack) <= maxDepth + 1
        /\ Len(board) <= maxDepth
        /\ \A k \in CallsOf("calculateBoard") : Len(calls[k].board) = maxDepth

C10_BoundedTermination ==
    []C10_Bounded /\ ((maxDepth >= 0) ~> (pc = "done"))

C10_Witness ==
    /\ pc = "done" /\ maxDepth >= 2
    /\ \E k \in CallsOf("calculateBoard") :
          /\ calculateEndState(game, calls[k].board) = 0
          /\ calculateTransitions(game, calls[k].board, maxDepth % 2 = 0) # <<>>
    /\ Len(stack) = 0 /\ board = <<>>

====
